---- MODULE Spec2Model ----
(***************************************************************************)
(* Model of the generated Parquet writer/reader of cmd/parquetgen/main.go  *)
(* (the template `tpl`): column buffers, chained row-group writers, the    *)
(* page layout, the file envelope and the record iterator.                 *)
(*                                                                         *)
(* The metadata package (parquet.Metadata, parquet.WriteLevels,            *)
(* parquet.ReadLevels, parquet.GetBools) is not part of the sources under  *)
(* src/; it is modelled from the operation surface the specification       *)
(* gives for it (spec.md, sections 4.1 and 6).                             *)
(***************************************************************************)
EXTENDS Integers, Sequences, FiniteSets, TLC

\* ------------------------------------------------------------------ bounds

\* Largest page size passed to MaxPageSize (besides the default).
MaxPageSize == 2
\* Calls of Add and Write made on one writer.
MaxCalls == 4
\* Calls of Next / Scan made after the reader is exhausted.
MaxExtraCalls == 1

\* The default of ParquetWriter.max.
DefaultPageSize == 1000

PageSizes == (1 .. MaxPageSize) \cup {DefaultPageSize}

\* ------------------------------------------------------------------ schema

\* Fields() is generated from the record type; these are the record shapes
\* of the model.  A column is named after its kind: "i" required int32,
\* "oi" optional int32, "b" required bool, "ob" optional bool, "s" required
\* string, "os" optional string.
Fields ==
  { <<"i">>, <<"oi">>, <<"b">>, <<"ob">>, <<"s">>, <<"os">>, <<"b", "oi">> }

\* The record types of the programs that read a file written with the
\* fields sch: the same one, those that share a field with it, and one that
\* shares none.
ReaderFields(sch) ==
  {r \in Fields : \E i \in 1 .. Len(sch), j \in 1 .. Len(r) : sch[i] = r[j]}
    \cup {IF sch = <<"i">> THEN <<"s">> ELSE <<"i">>}

\* Schema(): the physical type of a column.
Typ(c) ==
  CASE c \in {"i", "oi"} -> "int32"
    [] c \in {"b", "ob"} -> "bool"
    [] OTHER -> "string"

\* Schema(): RepetitionOptional or RepetitionRequired.
IsOpt(c) == c \in {"oi", "ob", "os"}

\* The values a field of a record may hold.  A string is its byte sequence.
BaseVals(c) ==
  CASE Typ(c) = "int32" -> {1, 256}
    [] Typ(c) = "bool" -> {TRUE, FALSE}
    [] OTHER -> {<< >>, <<97>>}

\* What the val adapter returns: the value, or for an optional field a
\* pointer, modelled as << >> (nil) or <<v>>.
FieldVals(c) ==
  CASE c = "oi" -> {<< >>, <<256>>}
    [] c = "ob" -> {<< >>, <<TRUE>>}
    [] c = "os" -> {<< >>, << << >> >>, << <<97>> >>}
    [] OTHER -> BaseVals(c)

\* What the val adapter of a column used on its own may return.
AdapterVals(c) ==
  IF IsOpt(c) THEN {<< >>} \cup {<<v>> : v \in BaseVals(c)} ELSE BaseVals(c)

Columns == {"i", "oi", "b", "ob", "s", "os"}

\* The records of a record type with the fields sch (one or two fields).
Records(sch) ==
  IF Len(sch) = 1 THEN {<<a>> : a \in FieldVals(sch[1])}
  ELSE {<<a, b>> : a \in FieldVals(sch[1]), b \in FieldVals(sch[2])}

\* The zero value of a field of a freshly declared record.
ZeroVal(c) ==
  CASE IsOpt(c) -> << >>
    [] Typ(c) = "int32" -> 0
    [] Typ(c) = "bool" -> FALSE
    [] OTHER -> << >>

ZeroRecord(sch) == [i \in 1 .. Len(sch) |-> ZeroVal(sch[i])]

\* ------------------------------------------------------------------ codecs

RECURSIVE Flatten(_)
Flatten(ss) == IF ss = << >> THEN << >> ELSE Head(ss) \o Flatten(Tail(ss))

Min(a, b) == IF a < b THEN a ELSE b
Max(a, b) == IF a > b THEN a ELSE b

\* binary.Write(&buf, binary.LittleEndian, v) for a 32-bit value.
LittleEndian32(v) ==
  << v % 256, (v \div 256) % 256, (v \div 65536) % 256, (v \div 16777216) % 256 >>

\* binary.Read(rr, binary.LittleEndian, &x) for a 32-bit value.
FromLittleEndian32(b) == b[1] + 256 * b[2] + 65536 * b[3] + 16777216 * b[4]

\* Int32Field.Write: the values, little-endian, tightly packed.
EncodeInt32s(vals) == Flatten([k \in 1 .. Len(vals) |-> LittleEndian32(vals[k])])

\* binary.Read(rr, binary.LittleEndian, &v) with len(v) = n: fails unless
\* 4*n bytes are there (and reads nothing for n = 0).
DecodeInt32s(bytes, n) ==
  IF n < 0 THEN [err |-> "panic", vals |-> << >>]
  ELSE IF Len(bytes) < 4 * n THEN [err |-> "unexpected EOF", vals |-> << >>]
  ELSE [err |-> "",
        vals |-> [k \in 1 .. n |-> FromLittleEndian32(SubSeq(bytes, 4 * k - 3, 4 * k))]]

Pow2(i) == CASE i = 0 -> 1 [] i = 1 -> 2 [] i = 2 -> 4 [] i = 3 -> 8
             [] i = 4 -> 16 [] i = 5 -> 32 [] i = 6 -> 64 [] OTHER -> 128

RECURSIVE SumBits(_, _, _)
SumBits(vals, k, i) ==
  IF i > 7 THEN 0
  ELSE (IF 8 * k + i + 1 <= Len(vals) /\ vals[8 * k + i + 1] THEN Pow2(i) ELSE 0)
         + SumBits(vals, k, i + 1)

\* A variant of PackBools that fills each byte from its most significant bit.
RECURSIVE SumBitsFromTop(_, _, _)
SumBitsFromTop(vals, k, i) ==
  IF i > 7 THEN 0
  ELSE (IF 8 * k + i + 1 <= Len(vals) /\ vals[8 * k + i + 1] THEN Pow2(7 - i) ELSE 0)
         + SumBitsFromTop(vals, k, i + 1)

PackBoolsFromTop(vals) ==
  [k \in 1 .. ((Len(vals) + 7) \div 8) |-> SumBitsFromTop(vals, k - 1, 0)]

\* BoolField.Write: rawBuf[i/8] |= 1 << (i%8), (ln + 7) / 8 bytes.
PackBools(vals) == [k \in 1 .. ((Len(vals) + 7) \div 8) |-> SumBits(vals, k - 1, 0)]

\* parquet.GetBools(r, n): value i is bit i % 8 of byte i / 8.
GetBools(bytes, n) ==
  IF n < 0 THEN [err |-> "panic", vals |-> << >>]
  ELSE IF Len(bytes) < (n + 7) \div 8 THEN [err |-> "not enough data", vals |-> << >>]
  ELSE [err |-> "",
        vals |-> [k \in 1 .. n |->
                    (bytes[((k - 1) \div 8) + 1] \div Pow2((k - 1) % 8)) % 2 = 1]]

\* StringField.Write: int32 length, little-endian, then the bytes.
EncodeStrings(vals) ==
  Flatten([k \in 1 .. Len(vals) |-> LittleEndian32(Len(vals[k])) \o vals[k]])

\* The body of the loops of StringField.Read and StringOptionalField.Read:
\* binary.Read of the length fails on fewer than 4 bytes; rr.Read(s) on a
\* bytes.Buffer fails only when the buffer is empty and len(s) > 0, and
\* otherwise fills what it has (the rest of s stays zero).
DecodeOneString(bytes) ==
  IF Len(bytes) < 4 THEN [err |-> "EOF", val |-> << >>, rest |-> << >>]
  ELSE LET x == FromLittleEndian32(SubSeq(bytes, 1, 4))
           body == SubSeq(bytes, 5, Len(bytes))
       IN IF x > 0 /\ body = << >> THEN [err |-> "EOF", val |-> << >>, rest |-> << >>]
          ELSE [err |-> "",
                val |-> [k \in 1 .. x |-> IF k <= Len(body) THEN body[k] ELSE 0],
                rest |-> SubSeq(body, Min(x, Len(body)) + 1, Len(body))]

\* snappy.Encode(nil, b): the length preamble, then the bytes as a literal.
SnappyEncode(b) == <<Len(b)>> \o b

\* snappy.Decode(nil, c): fails on input that is no complete block.
SnappyDecode(c) ==
  IF c = << >> \/ c[1] # Len(c) - 1 THEN [err |-> "snappy: corrupt input", data |-> << >>]
  ELSE [err |-> "", data |-> Tail(c)]

\* parquet.WriteLevels(w, defs): a stream whose length the reader recovers.
WriteLevels(defs) == <<Len(defs)>> \o defs

\* parquet.ReadLevels(r): the levels and the number of bytes consumed.
ReadLevels(b) ==
  IF b = << >> \/ Len(b) < b[1] + 1 THEN [err |-> "EOF", defs |-> << >>, l |-> 0]
  ELSE [err |-> "", defs |-> SubSeq(b, 2, b[1] + 1), l |-> b[1] + 1]

\* ------------------------------------------------------------ column buffer

\* A column buffer: vals, and for an optional column the definition levels.
EmptyField == [vals |-> << >>, defs |-> << >>]

\* OptionalField.nVals: the number of definition levels equal to 1.
RECURSIVE nVals(_)
nVals(defs) ==
  IF defs = << >> THEN 0 ELSE (IF Head(defs) = 1 THEN 1 ELSE 0) + nVals(Tail(defs))

\* A variant of RequiredAdd that appends nothing.
RequiredAddNothing(f, v) == f

\* Field.Add for a required column: f.vals = append(f.vals, f.val(r)).
RequiredAdd(f, v) == [f EXCEPT !.vals = Append(@, v)]

\* A variant of OptionalAdd that appends no level for a nil pointer.
OptionalAddWithoutLevel(f, v) ==
  IF v # << >>
    THEN [vals |-> Append(f.vals, v[1]), defs |-> Append(f.defs, 1)]
    ELSE f

\* Field.Add for an optional column: a nil pointer appends the level 0 only.
OptionalAdd(f, v) ==
  IF v # << >>
    THEN [vals |-> Append(f.vals, v[1]), defs |-> Append(f.defs, 1)]
    ELSE [f EXCEPT !.defs = Append(@, 0)]

FieldAdd(f, c, v) == IF IsOpt(c) THEN OptionalAdd(f, v) ELSE RequiredAdd(f, v)

\* A variant of RequiredScan that hands the read adapter a zero value when
\* the buffer is empty.
RequiredScanOfNothing(f, x) ==
  IF Len(f.vals) = 0 THEN [f |-> f, x |-> 0, read |-> TRUE, panic |-> FALSE]
  ELSE [f |-> [f EXCEPT !.vals = Tail(@)], x |-> f.vals[1], read |-> TRUE, panic |-> FALSE]

\* Field.Scan for a required column; x is the record's field before the call.
RequiredScan(f, x) ==
  IF Len(f.vals) = 0 THEN [f |-> f, x |-> x, read |-> FALSE, panic |-> FALSE]
  ELSE [f |-> [f EXCEPT !.vals = Tail(@)], x |-> f.vals[1], read |-> TRUE, panic |-> FALSE]

\* A variant of OptionalScan that leaves the value it read in f.vals.
OptionalScanKeepsValue(f, x) ==
  IF Len(f.defs) = 0 THEN [f |-> f, x |-> x, read |-> FALSE, panic |-> FALSE]
  ELSE IF f.defs[1] = 1
    THEN IF f.vals = << >>
           THEN [f |-> f, x |-> x, read |-> FALSE, panic |-> TRUE]
           ELSE [f |-> [vals |-> f.vals, defs |-> Tail(f.defs)],
                 x |-> <<f.vals[1]>>, read |-> TRUE, panic |-> FALSE]
    ELSE [f |-> [f EXCEPT !.defs = Tail(@)], x |-> << >>, read |-> TRUE, panic |-> FALSE]

\* Field.Scan for an optional column.  f.vals[0] on an empty slice panics.
OptionalScan(f, x) ==
  IF Len(f.defs) = 0 THEN [f |-> f, x |-> x, read |-> FALSE, panic |-> FALSE]
  ELSE IF f.defs[1] = 1
    THEN IF f.vals = << >>
           THEN [f |-> f, x |-> x, read |-> FALSE, panic |-> TRUE]
           ELSE [f |-> [vals |-> Tail(f.vals), defs |-> Tail(f.defs)],
                 x |-> <<f.vals[1]>>, read |-> TRUE, panic |-> FALSE]
    ELSE [f |-> [f EXCEPT !.defs = Tail(@)], x |-> << >>, read |-> TRUE, panic |-> FALSE]

FieldScan(f, c, x) == IF IsOpt(c) THEN OptionalScan(f, x) ELSE RequiredScan(f, x)

\* The value bytes a Write method hands to doWrite.
EncodeVals(c, vals) ==
  CASE Typ(c) = "int32" -> EncodeInt32s(vals)
    [] Typ(c) = "bool" -> PackBools(vals)
    [] OTHER -> EncodeStrings(vals)

\* RequiredField.doWrite: the page header's arguments and the compressed body.
RequiredDoWrite(f, c, vals, count) ==
  LET compressed == SnappyEncode(vals)
  IN [col |-> c, uncompressed |-> Len(vals), compressed |-> Len(compressed),
      numValues |-> count, body |-> compressed]

\* A variant of OptionalDoWrite whose header counts the values: count.
OptionalDoWriteCountingValues(f, c, vals, count) ==
  LET buf == WriteLevels(f.defs) \o vals
      compressed == SnappyEncode(buf)
  IN [col |-> c, uncompressed |-> Len(buf), compressed |-> Len(compressed),
      numValues |-> count, body |-> compressed]

\* OptionalField.doWrite: levels, then the values; count is not used.
OptionalDoWrite(f, c, vals, count) ==
  LET buf == WriteLevels(f.defs) \o vals
      compressed == SnappyEncode(buf)
  IN [col |-> c, uncompressed |-> Len(buf), compressed |-> Len(compressed),
      numValues |-> Len(f.defs), body |-> compressed]

\* Field.Write.
FieldWrite(f, c) ==
  IF IsOpt(c) THEN OptionalDoWrite(f, c, EncodeVals(c, f.vals), Len(f.vals))
  ELSE RequiredDoWrite(f, c, EncodeVals(c, f.vals), Len(f.vals))

\* ---------------------------------------------------------------- metadata

\* The column chunk the metadata keeps for one column of one row group.
EmptyChunk == [pages |-> 0, n |-> 0, size |-> 0, offset |-> 0]

\* Metadata.StartRowGroup(schema...): begin accounting for a new row group.
StartRowGroup(m, sch) == Append(m, [i \in 1 .. Len(sch) |-> EmptyChunk])

\* parquet.New(schema...): the metadata, accounting for its first row group.
MetaNew(sch) == StartRowGroup(<< >>, sch)

\* Metadata.WritePageHeader: account the page to column i of the current
\* row group; offset is where the header starts in the output.
WritePageHeader(m, i, page, offset) ==
  LET ch == m[Len(m)][i]
  IN [m EXCEPT ![Len(m)][i] =
        [pages |-> ch.pages + 1, n |-> ch.n + page.numValues,
         size |-> ch.size + page.compressed,
         offset |-> IF ch.pages = 0 THEN offset ELSE ch.offset]]

\* Metadata.Footer: the row groups, each with the columns that have a chunk
\* in schema order, and the total number of rows.
RECURSIVE SumRows(_)
SumRows(m) == IF m = << >> THEN 0 ELSE Head(m)[1].n + SumRows(Tail(m))

FooterOf(m, sch) ==
  [kind |-> "footer",
   rowGroups |-> [g \in 1 .. Len(m) |->
                    [i \in 1 .. Len(sch) |-> [name |-> sch[i], chunk |-> m[g][i]]]],
   rows |-> SumRows(m)]

\* ------------------------------------------------------------------ writer

Magic == [kind |-> "magic", bytes |-> <<80, 65, 82, 49>>]

\* newParquetWriter: fields: Fields(), len 0, no child.
NewWriter(sch) == [fields |-> [i \in 1 .. Len(sch) |-> EmptyField], len |-> 0]

\* A variant of IsFull that lets one record more into a writer.
IsFullLate(len, mx) == len > mx

\* The test of ParquetWriter.Add: p.len == p.max.
IsFull(len, mx) == len = mx

\* A variant of AddTo that allocates a child at every overflow, in place of
\* the child there is.
RECURSIVE AddToFreshChild(_, _, _, _, _)
AddToFreshChild(ch, k, rec, sch, mx) ==
  IF IsFull(ch[k].len, mx)
    THEN AddToFreshChild(Append(SubSeq(ch, 1, k), NewWriter(sch)), k + 1, rec, sch, mx)
    ELSE [ch EXCEPT ![k] =
            [fields |-> [i \in 1 .. Len(sch) |-> FieldAdd(ch[k].fields[i], sch[i], rec[i])],
             len |-> ch[k].len + 1]]

\* ParquetWriter.Add on the k-th writer of the chain: forward to the child
\* (allocating it when there is none) or add to every field.
RECURSIVE AddTo(_, _, _, _, _)
AddTo(ch, k, rec, sch, mx) ==
  IF IsFull(ch[k].len, mx)
    THEN AddTo(IF k = Len(ch) THEN Append(ch, NewWriter(sch)) ELSE ch, k + 1, rec, sch, mx)
    ELSE [ch EXCEPT ![k] =
            [fields |-> [i \in 1 .. Len(sch) |-> FieldAdd(ch[k].fields[i], sch[i], rec[i])],
             len |-> ch[k].len + 1]]

\* A variant of WriteOrder with the outer loop over the writers of the chain.
WriteOrderByRowGroup(nf, nc) ==
  [x \in 1 .. nf * nc |-> <<((x - 1) % nf) + 1, ((x - 1) \div nf) + 1>>]

\* The order of the pages of ParquetWriter.Write: for i, f := range p.fields,
\* then the children; <<i, k>> is field i of the k-th writer of the chain.
WriteOrder(nf, nc) ==
  [x \in 1 .. nf * nc |-> <<((x - 1) \div nc) + 1, ((x - 1) % nc) + 1>>]

\* A variant of WritePages that writes each page's body before its header.
RECURSIVE WritePagesBodyFirst(_, _, _, _, _)
WritePagesBodyFirst(order, ch, sch, o, m) ==
  IF order = << >> THEN [out |-> o, meta |-> m]
  ELSE LET i == Head(order)[1]
           k == Head(order)[2]
           page == FieldWrite(ch[k].fields[i], sch[i])
           header == [kind |-> "header", col |-> page.col,
                      uncompressed |-> page.uncompressed,
                      compressed |-> page.compressed, numValues |-> page.numValues]
           body == [kind |-> "body", bytes |-> page.body]
       IN WritePagesBodyFirst(Tail(order), ch, sch, o \o <<body, header>>,
                              WritePageHeader(m, i, page, Len(o) + 1))

\* The loop of ParquetWriter.Write: each page's header goes through the
\* metadata to the output, then its compressed body.
RECURSIVE WritePages(_, _, _, _, _)
WritePages(order, ch, sch, o, m) ==
  IF order = << >> THEN [out |-> o, meta |-> m]
  ELSE LET i == Head(order)[1]
           k == Head(order)[2]
           page == FieldWrite(ch[k].fields[i], sch[i])
           header == [kind |-> "header", col |-> page.col,
                      uncompressed |-> page.uncompressed,
                      compressed |-> page.compressed, numValues |-> page.numValues]
           body == [kind |-> "body", bytes |-> page.body]
       IN WritePages(Tail(order), ch, sch, o \o <<header, body>>,
                     WritePageHeader(m, i, page, Len(o) + 1))

\* A variant of WriteMeta that starts no row group.
WriteMetaWithoutStart(m, sch) == m

\* The end of ParquetWriter.Write: the metadata is told to start a row group.
WriteMeta(m, sch) == StartRowGroup(m, sch)

\* ------------------------------------------------------------------ reader

\* The loop of RequiredField.doRead and OptionalField.doRead (opt): read
\* page headers and bodies at the cursor until they carry pos.N values.
\* The header's col is the writer's annotation; it is not in the file.
RECURSIVE DoReadLoop(_, _, _, _, _, _, _, _)
DoReadLoop(f, c, posN, opt, nRead, o, defs, pages) ==
  IF nRead >= posN THEN [err |-> "", out |-> o, defs |-> defs, cur |-> c, pages |-> pages]
  ELSE IF c > Len(f) \/ f[c].kind # "header"
    THEN [err |-> "page header", out |-> o, defs |-> defs, cur |-> c, pages |-> pages]
  ELSE IF c + 1 > Len(f) \/ f[c + 1].kind # "body"
    THEN [err |-> "EOF", out |-> o, defs |-> defs, cur |-> c + 1, pages |-> pages]
  ELSE LET data == SnappyDecode(f[c + 1].bytes)
           lv == ReadLevels(data.data)
       IN IF data.err # ""
            THEN [err |-> data.err, out |-> o, defs |-> defs, cur |-> c + 2,
                  pages |-> pages + 1]
          ELSE IF opt /\ lv.err # ""
            THEN [err |-> lv.err, out |-> o, defs |-> defs, cur |-> c + 2,
                  pages |-> pages + 1]
          ELSE DoReadLoop(f, c + 2, posN, opt, nRead + f[c].numValues,
                          o \o (IF opt THEN SubSeq(data.data, lv.l + 1, Len(data.data))
                                ELSE data.data),
                          IF opt THEN defs \o lv.defs ELSE defs, pages + 1)

\* doRead: f.defs grows by the levels of the pages read.
doRead(f, c, posN, opt, defs) == DoReadLoop(f, c, posN, opt, 0, << >>, defs, 0)

\* The loop of StringField.Read: pos.N strings.
RECURSIVE DecodeStrings(_, _, _)
DecodeStrings(bytes, n, vals) ==
  IF n <= 0 THEN [err |-> "", vals |-> vals]
  ELSE LET s == DecodeOneString(bytes)
       IN IF s.err # "" THEN [err |-> s.err, vals |-> vals]
          ELSE DecodeStrings(s.rest, n - 1, Append(vals, s.val))

\* The loop of StringOptionalField.Read: for j < pos.N, a string where
\* f.defs[start+j] is 1; the index panics beyond the levels read.
RECURSIVE DecodeOptionalStrings(_, _, _, _, _)
DecodeOptionalStrings(bytes, defs, j, last, vals) ==
  IF j > last THEN [err |-> "", vals |-> vals]
  ELSE IF j > Len(defs) THEN [err |-> "panic", vals |-> vals]
  ELSE IF defs[j] = 0 THEN DecodeOptionalStrings(bytes, defs, j + 1, last, vals)
  ELSE LET s == DecodeOneString(bytes)
       IN IF s.err # "" THEN [err |-> s.err, vals |-> vals]
          ELSE DecodeOptionalStrings(s.rest, defs, j + 1, last, Append(vals, s.val))

\* BoolField.Read: f.vals, err = parquet.GetBools(rr, int(pos.N)).
BoolRead(vals, got) == got

\* Every other Read: f.vals = append(f.vals, v...).
AppendRead(vals, got) == vals \o got

\* Field.Read of column c at cursor cur of file f with position N = posN.
FieldRead(fld, c, f, cur, posN) ==
  LET d == doRead(f, cur, posN, IsOpt(c), fld.defs)
      n == IF IsOpt(c) THEN nVals(d.defs) - Len(fld.vals) ELSE posN
      v == CASE Typ(c) = "int32" -> DecodeInt32s(d.out, n)
             [] Typ(c) = "bool" -> GetBools(d.out, n)
             [] IsOpt(c) ->
                  DecodeOptionalStrings(d.out, d.defs, Len(fld.defs) + 1,
                                        Len(fld.defs) + posN, << >>)
             [] OTHER -> DecodeStrings(d.out, n, << >>)
      vals == IF c = "b" THEN BoolRead(fld.vals, v.vals) ELSE AppendRead(fld.vals, v.vals)
  IN IF d.err # ""
       THEN [err |-> d.err, fld |-> fld, cur |-> d.cur, pages |-> d.pages]
       ELSE [err |-> v.err, fld |-> [vals |-> vals, defs |-> d.defs],
             cur |-> d.cur, pages |-> d.pages]

\* Metadata.ReadFooter: the footer sits before the trailing magic.
ReadFooter(f) ==
  IF Len(f) >= 2 /\ f[Len(f) - 1].kind = "footer"
    THEN [err |-> "", footer |-> f[Len(f) - 1]]
    ELSE [err |-> "footer", footer |-> [kind |-> "footer", rowGroups |-> << >>, rows |-> 0]]

\* The Columns of one row group of Metadata.RowGroups(): the columns that
\* have a chunk.
IsWritten(col) == col.chunk.pages > 0
RowGroupColumns(rg) == SelectSeq(rg, IsWritten)

\* Metadata.Offsets(): for each field name its positions, one for each row
\* group that has the column.
RECURSIVE Offsets(_, _)
Offsets(rgs, name) ==
  IF rgs = << >> THEN << >>
  ELSE LET here == SelectSeq(RowGroupColumns(Head(rgs)), LAMBDA col : col.name = name)
       IN [k \in 1 .. Len(here) |-> here[k].chunk] \o Offsets(Tail(rgs), name)

\* The columns NewParquetReader walks: for i, rg := range RowGroups(), for
\* _, col := range rg.Columns.
ReadOrder(rgs) ==
  Flatten([g \in 1 .. Len(rgs) |->
             LET cols == RowGroupColumns(rgs[g])
             IN [k \in 1 .. Len(cols) |-> [g |-> g, name |-> cols[k].name]]])

\* Whether the field lookup of NewParquetReader finds the column.
Known(name, sch) == \E i \in 1 .. Len(sch) : sch[i] = name

\* A variant of UnknownField that stops reading without an error.
UnknownFieldIgnored(st) == st

\* if !ok { return nil, fmt.Errorf("unknown field: %s", name) }
UnknownField(st) == [st EXCEPT !.err = "unknown field"]

\* The loop of NewParquetReader over ReadOrder; st is the reader so far,
\* st.skip the row group whose remaining columns a break skips, st.reads
\* the calls of Read made: the position passed, and where the input's
\* cursor was at the call and at the return.
RECURSIVE ReadColumns(_, _, _, _, _)
ReadColumns(order, rgs, sch, f, st) ==
  IF order = << >> \/ st.err # "" THEN st
  ELSE LET g == Head(order).g
           name == Head(order).name
           offsets == Offsets(rgs, name)
       IN IF st.skip = g THEN ReadColumns(Tail(order), rgs, sch, f, st)
          ELSE IF ~Known(name, sch) THEN UnknownField(st)
          ELSE IF Len(offsets) <= 0
            THEN ReadColumns(Tail(order), rgs, sch, f, [st EXCEPT !.skip = g])
          ELSE IF g > Len(offsets) THEN [st EXCEPT !.err = "panic"]
          ELSE LET r == FieldRead(st.fields[name], name, f, st.cur, offsets[g].n)
               IN ReadColumns(Tail(order), rgs, sch, f,
                    [err |-> IF r.err \in {"", "panic"} THEN r.err
                             ELSE "unable to read field",
                     fields |-> [st.fields EXCEPT ![name] = r.fld],
                     cur |-> r.cur, pages |-> st.pages + r.pages, skip |-> st.skip,
                     loaded |-> [st.loaded EXCEPT ![name] = @ + offsets[g].n],
                     reads |-> Append(st.reads,
                                 [g |-> g, name |-> name, pos |-> offsets[g],
                                  from |-> st.cur, to |-> r.cur])])

\* getFields(Fields()): the column buffers by name.
getFields(sch) == [name \in {sch[i] : i \in 1 .. Len(sch)} |-> EmptyField]

\* NewParquetReader on file f with the fields sch: the footer, the seek
\* past the magic, then every column of every row group.
ReaderOf(f, sch) ==
  LET ft == ReadFooter(f)
      st0 == [err |-> ft.err, fields |-> getFields(sch), cur |-> 2, pages |-> 0,
              skip |-> 0, loaded |-> [name \in DOMAIN getFields(sch) |-> 0],
              reads |-> << >>]
      st == ReadColumns(ReadOrder(ft.footer.rowGroups), ft.footer.rowGroups, sch, f, st0)
  IN st

\* Metadata.Rows() after ReadFooter.
RowsOf(f) == ReadFooter(f).footer.rows

\* A variant of NextOf that tests p.cur > p.rows.
NextOfLate(c, rows) == IF c > rows THEN [more |-> FALSE, cur |-> c] ELSE [more |-> TRUE, cur |-> c + 1]

\* ParquetReader.Next: [more, cur].
NextOf(c, rows) == IF c >= rows THEN [more |-> FALSE, cur |-> c] ELSE [more |-> TRUE, cur |-> c + 1]

\* ParquetReader.Scan: every field scans into the record x.
ScanOf(fields, sch, x) ==
  LET r == [i \in 1 .. Len(sch) |-> FieldScan(fields[sch[i]], sch[i], x[i])]
  IN [fields |-> [name \in DOMAIN fields |->
                    LET i == CHOOSE i \in 1 .. Len(sch) : sch[i] = name IN r[i].f],
      x |-> [i \in 1 .. Len(sch) |-> r[i].x],
      read |-> [i \in 1 .. Len(sch) |-> r[i].read],
      panic |-> \E i \in 1 .. Len(sch) : r[i].panic]

\* ------------------------------------------------------------------- state

VARIABLES
  wschema,    \* the writer's Fields(), as column names
  max,        \* ParquetWriter.max
  chain,      \* the writer and its children: <<p, p.child, p.child.child, ...>>
  meta,       \* the writer's metadata: its row groups
  out,        \* what the WriteCounter has written to the io.Writer
  wstate,     \* "open", "closed" after Close, "stack overflow" after an Add that
              \* never ended
  added,      \* the records passed to Add, in order
  flushLog,   \* for each Write so far, the number of records added before it
  werr,       \* the error the sink gave a Write, if it failed, and the one that
              \* Write returned
  file,       \* the io.ReadSeeker handed to NewParquetReader
  rschema,    \* the reader's Fields()
  rstatus,    \* "none", "ok", "error" (constructor failed) or "panic"
  rerr,       \* the error of the constructor
  rfields,    \* ParquetReader.fields
  rrows,      \* ParquetReader.rows
  rcur,       \* ParquetReader.cur
  rpages,     \* the data pages the constructor read from the input
  rloaded,    \* for each field, the sum of pos.N of its Read calls
  nextCalls,  \* calls of Next
  nextTrue,   \* calls of Next that returned true
  lastNext,   \* what the last call of Next returned
  scanned,    \* the records Scan filled, each starting from the zero record
  fcol,       \* a column buffer used alone: its kind
  fbuf,       \* ... its buffer
  fadded,     \* ... the values passed to its Add
  fread,      \* ... the values its Scan handed to the read adapter
  fpage       \* ... the page its Write wrote

wvars == <<wschema, max, chain, meta, out, wstate, added, flushLog, werr>>
rvars == <<rschema, rstatus, rerr, rfields, rrows, rcur, rpages, rloaded,
           nextCalls, nextTrue, lastNext, scanned>>
fvars == <<fcol, fbuf, fadded, fread, fpage>>
vars == <<wvars, file, rvars, fvars>>

\* The sink has not failed.
NoError == [sink |-> "", returned |-> ""]

\* NewParquetWriter(w, MaxPageSize(mx)): the options, then begin writes the
\* magic; the metadata is created with the schema.
NewParquetWriter(sch, mx) ==
  /\ wschema = sch
  /\ max = mx
  /\ chain = <<NewWriter(sch)>>
  /\ meta = MetaNew(sch)
  /\ out = <<Magic>>
  /\ wstate = "open"
  /\ added = << >>
  /\ flushLog = << >>
  /\ werr = NoError

NoReader ==
  /\ file = << >>
  /\ rschema = << >>
  /\ rstatus = "none"
  /\ rerr = ""
  /\ rfields = getFields(<< >>)
  /\ rrows = 0
  /\ rcur = 0
  /\ rpages = 0
  /\ rloaded = getFields(<< >>)
  /\ nextCalls = 0
  /\ nextTrue = 0
  /\ lastNext = FALSE
  /\ scanned = << >>

\* Write has not been called.
NoPage == [col |-> "", uncompressed |-> 0, compressed |-> 0, numValues |-> 0, body |-> << >>]

NewField(c) ==
  /\ fcol = c
  /\ fbuf = EmptyField
  /\ fadded = << >>
  /\ fread = << >>
  /\ fpage = NoPage

Init ==
  /\ \E sch \in Fields, mx \in PageSizes : NewParquetWriter(sch, mx)
  /\ NoReader
  /\ NewField("i")

\* A variant of ChildBegins in which a child writes the magic when allocated.
ChildBeginsWithMagic(o, allocated) == IF allocated THEN o \o <<Magic>> ELSE o

\* The output after an Add that allocated a child or not: the child is made
\* by newParquetWriter with the options MaxPageSize and withMeta; begin is
\* not among them, and Add itself writes nothing.
ChildBegins(o, allocated) == o

\* Whether the forwarding of ParquetWriter.Add never ends: a child is
\* allocated with len 0, so when a writer of no records is full every
\* writer of the chain is, and so is every child allocated for the record.
NeverStores(sch, mx) == IsFull(NewWriter(sch).len, mx)

\* ParquetWriter.Add(rec).  A forwarding that never ends exhausts the
\* goroutine's stack, which ends the program: nothing is stored.
Add ==
  /\ wstate = "open"
  /\ Len(added) + Len(flushLog) < MaxCalls
  /\ \E rec \in Records(wschema) :
       IF NeverStores(wschema, max)
         THEN /\ wstate' = "stack overflow"
              /\ UNCHANGED <<chain, added, out>>
         ELSE /\ chain' = AddTo(chain, 1, rec, wschema, max)
              /\ added' = Append(added, rec)
              /\ out' = ChildBegins(out, Len(AddTo(chain, 1, rec, wschema, max)) > Len(chain))
              /\ UNCHANGED wstate
  /\ UNCHANGED <<wschema, max, meta, flushLog, werr, file, rvars, fvars>>

\* ParquetWriter.Write().
Write ==
  /\ wstate = "open"
  /\ Len(added) + Len(flushLog) < MaxCalls
  /\ LET w == WritePages(WriteOrder(Len(wschema), Len(chain)), chain, wschema, out, meta)
     IN /\ out' = w.out
        /\ meta' = WriteMeta(w.meta, wschema)
  /\ chain' = <<NewWriter(wschema)>>
  /\ flushLog' = Append(flushLog, Len(added))
  /\ UNCHANGED <<wschema, max, wstate, added, werr, file, rvars, fvars>>

\* A variant of CloseOutput that first writes the pages of the chain.
CloseOutputWithPages(o, m, sch) ==
  LET w == WritePages(WriteOrder(Len(sch), Len(chain)), chain, sch, o, m)
  IN w.out \o <<FooterOf(w.meta, sch), Magic>>

\* A variant of CloseOutput that writes the magic before the footer.
CloseOutputMagicFirst(o, m, sch) == o \o <<Magic, FooterOf(m, sch)>>

\* What ParquetWriter.Close() writes: the footer, then the magic.
CloseOutput(o, m, sch) == o \o <<FooterOf(m, sch), Magic>>

\* ParquetWriter.Close(); the output becomes a file to read.
Close ==
  /\ wstate = "open"
  /\ out' = CloseOutput(out, meta, wschema)
  /\ wstate' = "closed"
  /\ file' = out'
  /\ UNCHANGED <<wschema, max, chain, meta, added, flushLog, werr, rvars, fvars>>

\* NewParquetReader(r) of a program whose Fields() are sch.
NewParquetReader ==
  /\ wstate = "closed"
  /\ rstatus = "none"
  /\ \E sch \in ReaderFields(wschema) :
       LET st == ReaderOf(file, sch)
       IN /\ rschema' = sch
          /\ rstatus' = CASE st.err = "" -> "ok" [] st.err = "panic" -> "panic"
                          [] OTHER -> "error"
          /\ rerr' = st.err
          /\ rfields' = st.fields
          /\ rrows' = RowsOf(file)
          /\ rpages' = st.pages
          /\ rloaded' = st.loaded
  /\ UNCHANGED <<wvars, file, rcur, nextCalls, nextTrue, lastNext, scanned, fvars>>

\* ParquetReader.Next().
ReaderNext ==
  /\ rstatus = "ok"
  /\ nextCalls < rrows + MaxExtraCalls
  /\ nextCalls <= Len(scanned) + MaxExtraCalls
  /\ LET n == NextOf(rcur, rrows)
     IN /\ rcur' = n.cur
        /\ lastNext' = n.more
        /\ nextTrue' = nextTrue + (IF n.more THEN 1 ELSE 0)
  /\ nextCalls' = nextCalls + 1
  /\ UNCHANGED <<wvars, file, rschema, rstatus, rerr, rfields, rrows, rpages, rloaded,
                 scanned, fvars>>

\* ParquetReader.Scan(&x) with x a zero record.
Scan ==
  /\ rstatus = "ok"
  /\ Len(scanned) < rrows + MaxExtraCalls
  /\ Len(scanned) < nextTrue + MaxExtraCalls
  /\ LET s == ScanOf(rfields, rschema, ZeroRecord(rschema))
     IN /\ rfields' = s.fields
        /\ scanned' = Append(scanned, s.x)
        /\ rstatus' = IF s.panic THEN "panic" ELSE rstatus
  /\ UNCHANGED <<wvars, file, rschema, rerr, rrows, rcur, rpages, rloaded,
                 nextCalls, nextTrue, lastNext, fvars>>

Next == Add \/ Write \/ Close \/ NewParquetReader \/ ReaderNext \/ Scan

Spec == Init /\ [][Next]_vars

\* ------------------------------------------------- the other page sizes

\* MaxPageSize(m) takes any int, and keeps it: also 0 and negative sizes.
OtherPageSizes == {0 - 1, 0}

InitOtherPageSizes ==
  /\ \E sch \in Fields, mx \in OtherPageSizes : NewParquetWriter(sch, mx)
  /\ NoReader
  /\ NewField("i")

SpecOtherPageSizes == InitOtherPageSizes /\ [][Next]_vars

\* ----------------------------------------------------- a sink that fails

\* The errors the io.Writer may return.
SinkErrors == {"no space left on device"}

\* if err := f.Write(p.w, p.meta); err != nil { return err }, and the same
\* in doWrite: the error goes up as it is.
WriteReturns(e) == e

\* A variant of FailedWrite that goes on to the end of Write after the error.
FailedWriteThenReset(order, ch, sch, o, m, x, atBody) ==
  LET w == WritePages(SubSeq(order, 1, x - 1), ch, sch, o, m)
  IN [out |-> w.out, meta |-> StartRowGroup(w.meta, sch), chain |-> <<NewWriter(sch)>>]

\* ParquetWriter.Write when the sink fails at the x-th page of the flush, at
\* the write of its header or (atBody) of its body: the pages before it are
\* written, and the header of the x-th when its body fails; the return
\* leaves out the rest of Write.  The failing write itself puts nothing in
\* the output, and a header that failed is not accounted.
FailedWrite(order, ch, sch, o, m, x, atBody) ==
  LET w == WritePages(SubSeq(order, 1, x - 1), ch, sch, o, m)
      i == order[x][1]
      k == order[x][2]
      page == FieldWrite(ch[k].fields[i], sch[i])
      header == [kind |-> "header", col |-> page.col,
                 uncompressed |-> page.uncompressed,
                 compressed |-> page.compressed, numValues |-> page.numValues]
  IN IF atBody
       THEN [out |-> w.out \o <<header>>,
             meta |-> WritePageHeader(w.meta, i, page, Len(w.out) + 1), chain |-> ch]
       ELSE [out |-> w.out, meta |-> w.meta, chain |-> ch]

\* ParquetWriter.Write() on a sink that fails during it; the sink fails once.
WriteFails ==
  /\ wstate = "open"
  /\ Len(added) + Len(flushLog) < MaxCalls
  /\ werr = NoError
  /\ \E x \in 1 .. Len(wschema) * Len(chain), atBody \in BOOLEAN, e \in SinkErrors :
       LET r == FailedWrite(WriteOrder(Len(wschema), Len(chain)), chain, wschema,
                            out, meta, x, atBody)
       IN /\ out' = r.out
          /\ meta' = r.meta
          /\ chain' = r.chain
          /\ werr' = [sink |-> e, returned |-> WriteReturns(e)]
  /\ UNCHANGED <<wschema, max, wstate, added, flushLog, file, rvars, fvars>>

\* The writer alone, on such a sink.
NextSink == Add \/ Write \/ Close \/ WriteFails

SpecSink == Init /\ [][NextSink]_vars

\* ------------------------------------------------------- a damaged input

\* The input need not be what a writer wrote.  Damage: the first page of
\* a chunk with records of an optional column reports one value more than its levels
\* carry (mode "page"), or its position does ("position"), or both.
Damaged(f, g, i, mode) ==
  LET ft == Len(f) - 1
      h == f[ft].rowGroups[g][i].chunk.offset
      f1 == IF mode \in {"page", "both"}
              THEN [f EXCEPT ![h].numValues = @ + 1] ELSE f
  IN IF mode \in {"position", "both"}
       THEN [f1 EXCEPT ![ft].rowGroups[g][i].chunk.n = @ + 1] ELSE f1

Damage ==
  /\ wstate = "closed"
  /\ rstatus = "none"
  /\ file = out
  /\ \E g \in 1 .. Len(meta), i \in 1 .. Len(wschema), mode \in {"page", "position", "both"} :
       /\ IsOpt(wschema[i])
       /\ meta[g][i].n > 0
       /\ file' = Damaged(file, g, i, mode)
  /\ UNCHANGED <<wvars, rvars, fvars>>

NextDamaged == Next \/ Damage

SpecDamaged == Init /\ [][NextDamaged]_vars

\* ------------------------------------------- a source that reads short

Zeros(n) == [k \in 1 .. n |-> 0]

\* What doRead holds in `compressed` after r.Read(compressed) on a source
\* that delivers only the first n bytes of the body at index at: with an
\* error value the read fails (the item is no body to read); without one
\* the rest of the buffer make() allocated stays zero.  got records how
\* many bytes the source delivered.
ShortDelivery(f, at, n, withErr) ==
  IF withErr
    THEN [f EXCEPT ![at] = [kind |-> "short", bytes |-> SubSeq(f[at].bytes, 1, n), got |-> n]]
    ELSE [f EXCEPT ![at] = [kind |-> "body",
                            bytes |-> SubSeq(f[at].bytes, 1, n) \o Zeros(Len(f[at].bytes) - n),
                            got |-> n]]

\* The io.ReadSeeker delivers the body of the last page short, to a reader
\* that gets to it: the block's preamble only, or all but the last byte of
\* the page header's compressed size.
ShortRead ==
  /\ wstate = "closed"
  /\ rstatus = "none"
  /\ file = out
  /\ Len(file) >= 5
  /\ file[Len(file) - 2].kind = "body"
  /\ file[Len(file) - 3].numValues > 0
  /\ Len(file[Len(file) - 2].bytes) >= 2
  /\ \E n \in {1, Len(file[Len(file) - 2].bytes) - 1}, withErr \in BOOLEAN :
       file' = ShortDelivery(file, Len(file) - 2, n, withErr)
  /\ UNCHANGED <<wvars, rvars, fvars>>

NextShort == Next \/ ShortRead

SpecShort == Init /\ [][NextShort]_vars

\* ------------------------------------------------- a column buffer alone

\* Fields() are exported: a Field can be driven directly, Add and Scan in
\* any order.
InitField ==
  /\ NewParquetWriter(<<"i">>, DefaultPageSize)
  /\ NoReader
  /\ \E c \in Columns : NewField(c)

\* Field.Add(r) with the val adapter returning v.
FieldAddCall ==
  /\ Len(fadded) + Len(fread) < MaxCalls
  /\ \E v \in AdapterVals(fcol) :
       /\ fbuf' = FieldAdd(fbuf, fcol, v)
       /\ fadded' = Append(fadded, v)
  /\ UNCHANGED <<wvars, file, rvars, fcol, fread, fpage>>

\* Field.Scan(&r); fread records what the read adapter was called with.
FieldScanCall ==
  /\ LET s == FieldScan(fbuf, fcol, ZeroVal(fcol))
     IN /\ ~s.panic
        /\ fbuf' = s.f
        /\ fread' = IF s.read THEN Append(fread, s.x) ELSE fread
  /\ UNCHANGED <<wvars, file, rvars, fcol, fadded, fpage>>

NextField == FieldAddCall \/ FieldScanCall

SpecField == InitField /\ [][NextField]_vars

\* -------------------------------------------------- a bool column's page

\* The longest run of booleans tried in every combination.
MaxBools == 8
\* The length of the alternating run of the specification's scenario.
MaxAlternating == 17

\* true, false, true, ... : n values.
Alternating(n) == [k \in 1 .. n |-> k % 2 = 1]

\* All sequences over S of length n.
SeqsOf(S, n) == [1 .. n -> S]

\* What the val adapter returned for the records added to a bool column:
\* every run up to MaxBools values (half as long where a field may be
\* absent), and the alternating runs.
BoolInputs(c) ==
  IF IsOpt(c)
    THEN UNION {SeqsOf({<< >>, <<TRUE>>, <<FALSE>>}, n) : n \in 0 .. MaxBools \div 2}
           \cup {[k \in 1 .. n |-> <<Alternating(n)[k]>>] : n \in 0 .. MaxAlternating}
    ELSE UNION {SeqsOf(BOOLEAN, n) : n \in 0 .. MaxBools}
           \cup {Alternating(n) : n \in 0 .. MaxAlternating}

\* The buffer of a column after Add of each of vs.
RECURSIVE BufferOf(_, _, _)
BufferOf(c, vs, f) == IF vs = << >> THEN f ELSE BufferOf(c, Tail(vs), FieldAdd(f, c, Head(vs)))

InitBool ==
  /\ NewParquetWriter(<<"b">>, DefaultPageSize)
  /\ NoReader
  /\ \E c \in {"b", "ob"} :
       \E vs \in BoolInputs(c) :
         /\ fcol = c
         /\ fadded = vs
         /\ fbuf = BufferOf(c, vs, EmptyField)
         /\ fread = << >>
         /\ fpage = NoPage

\* Field.Write(w, meta): the page of the buffer's values.
FieldWriteCall ==
  /\ fpage' = FieldWrite(fbuf, fcol)
  /\ UNCHANGED <<wvars, file, rvars, fcol, fbuf, fadded, fread>>

NextBool == FieldWriteCall

SpecBool == InitBool /\ [][NextBool]_vars

\* ------------------------------------------------------------- properties

Ceil(n, p) == (n + p - 1) \div p

\* The pages of column c in the output.
PagesOf(o, c) == Cardinality({k \in 1 .. Len(o) : o[k].kind = "header" /\ o[k].col = c})

\* The writer added every record, flushed once, closed, and a program with
\* the same fields opened the file as written.
WroteAllOnce ==
  /\ wstate = "closed"
  /\ flushLog = <<Len(added)>>
  /\ file = out
  /\ rschema = wschema

\* The buffer of column i of one row group that holds all the records rs.
RECURSIVE ColumnOf(_, _, _, _)
ColumnOf(rs, i, c, f) ==
  IF rs = << >> THEN f ELSE ColumnOf(Tail(rs), i, c, FieldAdd(f, c, Head(rs)[i]))

IsLevels(defs) == \A k \in 1 .. Len(defs) : defs[k] \in {0, 1}

\* C1: after adding every record, one flush and close, a reader of the same
\* record type that calls Next and Scan until Next returns false has
\* scanned exactly the records added, field by field.
RoundTrip ==
  (/\ WroteAllOnce
   /\ rstatus # "none"
   /\ nextCalls = nextTrue + 1
   /\ Len(scanned) = nextTrue)
    => (rstatus = "ok" /\ scanned = added)

\* The round trip of C1 for the record types without a bool column.
RoundTripWithoutBool ==
  (\A i \in 1 .. Len(wschema) : Typ(wschema[i]) # "bool") => RoundTrip

\* The record counts C2 names for a page size.
SegmentSizes(ps) == {0, 1, ps - 1, ps, ps + 1, 3 * ps + 5}

\* C2: for the record counts 0, 1, page_size-1, page_size, page_size+1 and
\* 3*page_size+5, what the reader loads from a file flushed once is what one
\* row group holding all the records would hold, whatever the page size.
SegmentationInvisible ==
  (/\ WroteAllOnce
   /\ rstatus # "none"
   /\ scanned = << >>
   /\ Len(added) \in SegmentSizes(max))
    => /\ rstatus = "ok"
       /\ \A i \in 1 .. Len(wschema) :
            rfields[wschema[i]] = ColumnOf(added, i, wschema[i], EmptyField)

\* C3: in every optional column buffer, of the writer's chain and of a
\* reader built from a written file, the levels are one per buffered record,
\* each 0 or 1, and the levels equal to 1 are as many as the values.
OptionalBufferInvariant ==
  /\ \A k \in 1 .. Len(chain), i \in 1 .. Len(wschema) :
       IsOpt(wschema[i]) =>
         LET f == chain[k].fields[i]
         IN /\ Len(f.defs) = chain[k].len
            /\ IsLevels(f.defs)
            /\ nVals(f.defs) = Len(f.vals)
  /\ rstatus = "ok" =>
       \A i \in 1 .. Len(rschema) :
         IsOpt(rschema[i]) =>
           LET f == rfields[rschema[i]]
           IN /\ Len(f.defs) = Max(0, rloaded[rschema[i]] - Len(scanned))
              /\ IsLevels(f.defs)
              /\ nVals(f.defs) = Len(f.vals)

\* C3 witness: a reader has loaded an optional column with absent and
\* present records, and has drained one of them.
OptionalBufferWitness ==
  /\ rstatus = "ok"
  /\ Len(scanned) = 1
  /\ \E i \in 1 .. Len(rschema) :
       /\ IsOpt(rschema[i])
       /\ rloaded[rschema[i]] >= 3
       /\ \E j, k \in 1 .. Len(rfields[rschema[i]].defs) :
            rfields[rschema[i]].defs[j] = 0 /\ rfields[rschema[i]].defs[k] = 1

\* C4 as claimed: after adding N records and flushing once, each column has
\* written ceil(N / P) pages, for every N >= 0.
PageCountAsClaimed ==
  Len(flushLog) = 1 =>
    \A i \in 1 .. Len(wschema) : PagesOf(out, wschema[i]) = Ceil(flushLog[1], max)

\* C4 amended: after adding N records and flushing once, each column has
\* written ceil(N / P) pages when N >= 1, and one page, of no values, when
\* N = 0.
PageCount ==
  Len(flushLog) = 1 =>
    \A i \in 1 .. Len(wschema) :
      PagesOf(out, wschema[i]) = IF flushLog[1] = 0 THEN 1 ELSE Ceil(flushLog[1], max)

\* C4 witness: one flush of more records than two pages hold.
PageCountWitness ==
  /\ Len(flushLog) = 1
  /\ flushLog[1] > 2 * max
  /\ PagesOf(out, wschema[1]) = 3

\* The row groups of the metadata that have pages.
DataRowGroups(m) == Cardinality({g \in 1 .. Len(m) : \E i \in 1 .. Len(m[g]) : m[g][i].pages > 0})

FileEnvelope ==
  /\ Len(out) >= 1
  /\ out[1].kind = "magic"
  /\ out[1].bytes = <<80, 65, 82, 49>>
  /\ \A k \in 2 .. Len(out) : out[k].kind = "magic" => (wstate = "closed" /\ k = Len(out))
  /\ wstate = "closed" =>
       /\ Len(out) >= 3
       /\ out[Len(out)].kind = "magic"
       /\ out[Len(out)].bytes = <<80, 65, 82, 49>>
       /\ out[Len(out) - 1].kind = "footer"
       /\ \A k \in 2 .. Len(out) - 2 : out[k].kind \in {"header", "body"}

\* C6 witness: a closed file with the pages of two flushes.
FileEnvelopeWitness ==
  /\ wstate = "closed"
  /\ Len(flushLog) = 2
  /\ Len(added) = 2

\* C7: Next returns true on exactly the first rows() calls and false on
\* every later one.
NextCount ==
  rstatus = "ok" =>
    /\ nextTrue = Min(nextCalls, rrows)
    /\ rcur = nextTrue
    /\ rrows = RowsOf(file)
    /\ nextCalls > 0 => (lastNext <=> nextCalls <= rrows)

\* C7 witness: the call after the last of three records returned false.
NextCountWitness ==
  /\ rstatus = "ok"
  /\ rrows = 3
  /\ nextCalls = 4
  /\ ~lastNext

\* The first column of the footer, in the order the reader walks, that is
\* no field of the reader; 0 when there is none.
FirstUnknown(order, sch) ==
  IF \E k \in 1 .. Len(order) : ~Known(order[k].name, sch)
    THEN CHOOSE k \in 1 .. Len(order) :
           /\ ~Known(order[k].name, sch)
           /\ \A j \in 1 .. k - 1 : Known(order[j].name, sch)
    ELSE 0

\* The pages of the columns before the k-th of the first row group.
RECURSIVE PagesBefore(_, _)
PagesBefore(rg, k) ==
  IF k <= 1 THEN 0
  ELSE (IF rg[k - 1].chunk.n > 0 THEN rg[k - 1].chunk.pages ELSE 0) + PagesBefore(rg, k - 1)

\* C8 as claimed: when the constructor fails with "unknown field", no data
\* page has been read.
UnknownFieldBeforeAnyPage ==
  (rstatus = "error" /\ rerr = "unknown field") => rpages = 0

\* C8 amended: a footer column that is no field of the reader makes the
\* constructor fail with "unknown field"; the pages of the known columns
\* before it in its row group have been read by then, and no other page.
UnknownFieldFails ==
  (rstatus # "none" /\ file = out) =>
    LET rgs == ReadFooter(file).footer.rowGroups
        u == FirstUnknown(ReadOrder(rgs), rschema)
    IN u > 0 =>
         /\ rstatus = "error"
         /\ rerr = "unknown field"
         /\ rpages = PagesBefore(rgs[1], u)

\* C8 witness: the unknown column came second, after two pages of the first.
UnknownFieldWitness ==
  /\ rstatus = "error"
  /\ rerr = "unknown field"
  /\ rpages = 2

\* C9: a reader of a file in which an optional column's page or position
\* reports more values than its levels carry fails with an error.
LevelMismatchDetected ==
  (file # << >> /\ file # out /\ rstatus # "none" /\ rschema = wschema)
    => rstatus = "error"

\* C10: the k-th value a column buffer hands to its read adapter is the
\* value of the k-th Add: nil where that was nil, else its own value.
FieldFIFO ==
  /\ Len(fread) <= Len(fadded)
  /\ \A k \in 1 .. Len(fread) : fread[k] = fadded[k]
  /\ Len(fread) + (IF IsOpt(fcol) THEN Len(fbuf.defs) ELSE Len(fbuf.vals)) = Len(fadded)

\* C10 witness: an optional column has drained a present value, a nil and
\* another present value.
FieldFIFOWitness ==
  /\ IsOpt(fcol)
  /\ Len(fread) = 3
  /\ fread[1] # << >>
  /\ fread[2] = << >>
  /\ fread[3] # << >>
  /\ fread[3] # fread[1]

\* C11: a reader whose source delivered fewer bytes than the compressed size
\* for a page body, with or without an error value, fails: either the
\* reader did not get to that page (it is the last of the file), or the
\* constructor returns the error of the field's Read.
ShortReadFails ==
  (rstatus # "none" /\ file # << >> /\ file # out)
    => \/ 2 * rpages < Len(file) - 3
       \/ (rstatus = "error" /\ rerr = "unable to read field")

\* The short read of C11 when the source returns an error value with it.
ShortReadWithErrorFails ==
  (rstatus # "none" /\ file # << >> /\ file # out /\ file[Len(file) - 2].kind = "short")
    => (rstatus = "error" /\ rerr \in {"unable to read field", "unknown field"})

\* The records added between the flush before the g-th and the g-th flush.
FlushedBy(g) ==
  SubSeq(added, (IF g = 1 THEN 0 ELSE flushLog[g - 1]) + 1, flushLog[g])

\* The pages a flush of n records writes for each column.
PagesPerColumn(n) == IF n = 0 THEN 1 ELSE Ceil(n, max)

\* The header and body of the k-th page of column i for the records rs.
PageItems(rs, i, k) ==
  LET recs == SubSeq(rs, (k - 1) * max + 1, Min(k * max, Len(rs)))
      page == FieldWrite(ColumnOf(recs, i, wschema[i], EmptyField), wschema[i])
  IN << [kind |-> "header", col |-> page.col, uncompressed |-> page.uncompressed,
         compressed |-> page.compressed, numValues |-> page.numValues],
        [kind |-> "body", bytes |-> page.body] >>

\* What the calls made so far determine as the output of one flush: for each
\* column, the pages of the records in order.
FlushItems(rs) ==
  Flatten([i \in 1 .. Len(wschema) |->
             Flatten([k \in 1 .. PagesPerColumn(Len(rs)) |-> PageItems(rs, i, k)])])

RECURSIVE SumCompressed(_)
SumCompressed(items) ==
  IF items = << >> THEN 0
  ELSE (IF Head(items).kind = "header" THEN Head(items).compressed ELSE 0)
         + SumCompressed(Tail(items))

\* The items of the flushes before the g-th.
ItemsBefore(g) == Flatten([h \in 1 .. g - 1 |-> FlushItems(FlushedBy(h))])

\* What the calls determine as the metadata: one row group for each flush
\* and the one started last.
MetaByCalls ==
  [g \in 1 .. Len(flushLog) + 1 |->
     [i \in 1 .. Len(wschema) |->
        IF g > Len(flushLog) THEN EmptyChunk
        ELSE LET rs == FlushedBy(g)
                 np == PagesPerColumn(Len(rs))
             IN [pages |-> np, n |-> Len(rs),
                 size |-> SumCompressed(Flatten([k \in 1 .. np |-> PageItems(rs, i, k)])),
                 offset |-> 1 + Len(ItemsBefore(g)) + 2 * np * (i - 1) + 1]]]

\* What the calls determine as the whole output.
OutByCalls ==
  <<Magic>> \o ItemsBefore(Len(flushLog) + 1)
    \o (IF wstate = "closed" THEN <<FooterOf(MetaByCalls, wschema), Magic>> ELSE << >>)

\* C12: the output is a function of the record type, the page size and the
\* calls made (the records added, where the flushes fell, whether the
\* writer was closed): two runs with the same calls emit the same pages in
\* the same order with the same header arguments, and the same footer.
\* (Stated of the states in which no reader has been built yet: building
\* and using a reader changes nothing of the writer.)
Deterministic ==
  rstatus = "none" =>
    /\ out = OutByCalls
    /\ meta = MetaByCalls

\* C12 witness: a closed file of two columns with two flushes, the first of
\* two pages for each column.
DeterministicWitness ==
  /\ wstate = "closed"
  /\ Len(wschema) = 2
  /\ max = 1
  /\ flushLog = <<2, 2>>

\* C13: a flush of a chain of nc writers (the head, then its children in
\* creation order) appends nf * nc pages to the output; the page of column
\* i of the k-th writer is the ((i - 1) * nc + k)-th of them, so that all
\* the pages of a column come before any page of the next column and every
\* (writer, column) pair is written once.
FlushWriteOrder ==
  [][flushLog' # flushLog =>
       LET nc == Len(chain)
           nf == Len(wschema)
           new == SubSeq(out', Len(out) + 1, Len(out'))
       IN /\ Len(new) = 2 * nf * nc
          /\ \A i \in 1 .. nf, k \in 1 .. nc :
               LET x == (i - 1) * nc + k
                   page == FieldWrite(chain[k].fields[i], wschema[i])
               IN /\ new[2 * x - 1].kind = "header"
                  /\ new[2 * x - 1].col = wschema[i]
                  /\ new[2 * x - 1].numValues = page.numValues
                  /\ new[2 * x - 1].uncompressed = page.uncompressed
                  /\ new[2 * x].kind = "body"
                  /\ new[2 * x].bytes = page.body]_vars

\* C13 witness: a flush of two columns and a chain of two writers has been
\* written: two pages of the first column, then two of the second.
FlushWriteOrderWitness ==
  /\ flushLog = <<2>>
  /\ Len(wschema) = 2
  /\ max = 1
  /\ Len(out) = 9
  /\ out[2].col = wschema[1] /\ out[4].col = wschema[1]
  /\ out[6].col = wschema[2] /\ out[8].col = wschema[2]
  /\ out[2].numValues = 1 /\ out[4].numValues = 1

\* The records added since the last flush.
Pending == SubSeq(added, (IF flushLog = << >> THEN 0 ELSE flushLog[Len(flushLog)]) + 1, Len(added))

\* The buffers of column i of the writers of the chain, one after the other.
ChainColumn(i) ==
  [vals |-> Flatten([k \in 1 .. Len(chain) |-> chain[k].fields[i].vals]),
   defs |-> Flatten([k \in 1 .. Len(chain) |-> chain[k].fields[i].defs])]

\* Every writer of the chain holds at most page_size records, every writer
\* that has a child holds exactly page_size, and the chain holds each
\* record added since the last flush once, in the order of the adds.
ChainBounded ==
  /\ \A k \in 1 .. Len(chain) :
       /\ chain[k].len <= max
       /\ k < Len(chain) => chain[k].len = max
       /\ k > 1 => chain[k].len >= 1
  /\ \A i \in 1 .. Len(wschema) : ChainColumn(i) = ColumnOf(Pending, i, wschema[i], EmptyField)

\* An Add leaves every full writer as it was, stores the record in the first
\* writer that is not full, and allocates a child only when every writer
\* of the chain is full.
AddForwards ==
  added' # added =>
    LET full == {k \in 1 .. Len(chain) : chain[k].len = max}
        rec == added'[Len(added')]
    IN /\ \A k \in full : chain'[k] = chain[k]
       /\ Len(chain') = IF full = 1 .. Len(chain) THEN Len(chain) + 1 ELSE Len(chain)
       /\ \E k \in 1 .. Len(chain') :
            /\ k - 1 = Cardinality(full)
            /\ chain'[k].len = (IF k <= Len(chain) THEN chain[k].len ELSE 0) + 1
            /\ \A i \in 1 .. Len(wschema) :
                 chain'[k].fields[i] =
                   FieldAdd(IF k <= Len(chain) THEN chain[k].fields[i] ELSE EmptyField,
                            wschema[i], rec[i])
            /\ \A j \in 1 .. Len(chain) : j # k => chain'[j] = chain[j]

\* C14: overflow chaining, with page_size >= 1: what each Add does to the
\* chain, and what holds of the chain in every state in consequence.
OverflowChaining == []ChainBounded /\ [][AddForwards]_vars

\* C14 witness: a record was forwarded past a full head to its child, and
\* the next one past both to a new child.
OverflowChainingWitness ==
  /\ max = 1
  /\ Len(chain) = 3
  /\ chain[3].len = 1
  /\ Len(Pending) = 3

\* The logical records a column buffer holds: len(vals) for a required
\* column, len(defs) for an optional one.
LogicalRecords(f, c) == IF IsOpt(c) THEN Len(f.defs) ELSE Len(f.vals)

\* C15: in every writer of the chain, every column buffer holds the same
\* number of logical records, and that number is the writer's record count.
EqualColumnCounts ==
  \A k \in 1 .. Len(chain), i \in 1 .. Len(wschema) :
    LogicalRecords(chain[k].fields[i], wschema[i]) = chain[k].len

\* C15 witness: a writer of a required and an optional column holds two
\* records, one of them without a value in the optional column.
EqualColumnCountsWitness ==
  /\ Len(wschema) = 2
  /\ ~IsOpt(wschema[1]) /\ IsOpt(wschema[2])
  /\ chain[1].len = 2
  /\ Len(chain[1].fields[1].vals) = 2
  /\ Len(chain[1].fields[2].vals) = 1
  /\ Len(flushLog) = 1

\* C16: a flush leaves the writer with one writer of empty column buffers
\* and record count 0, no children, and the metadata with exactly one more
\* row group, of the same columns and nothing accounted to it; and the add
\* that follows a flush stores its record in the head, with count 1.
FlushExitState ==
  [][/\ flushLog' # flushLog =>
          /\ Len(chain') = 1
          /\ chain'[1].len = 0
          /\ \A i \in 1 .. Len(wschema) : chain'[1].fields[i] = EmptyField
          /\ Len(meta') = Len(meta) + 1
          /\ meta'[Len(meta')] = [i \in 1 .. Len(wschema) |-> EmptyChunk]
     /\ (/\ flushLog # << >>
         /\ Pending = << >>
         /\ wstate = "open"
         /\ (added' # added \/ wstate' # wstate)
         /\ wstate' # "closed") =>
          /\ wstate' = "open"
          /\ Len(added') = Len(added) + 1
          /\ Len(chain') = 1
          /\ chain'[1].len = 1
          /\ \A i \in 1 .. Len(wschema) :
               chain'[1].fields[i] =
                 FieldAdd(EmptyField, wschema[i], added'[Len(added')][i])]_vars

\* C17: a Write during which the sink fails returns the sink's error as it
\* is, has written a proper prefix of the pages the flush would have
\* written and nothing after it, has started no row group, and leaves the
\* chain, with its buffers and record counts, as it was before the call.
FlushFailure ==
  [][(werr' # werr /\ werr' # NoError) =>
       LET full == WritePages(WriteOrder(Len(wschema), Len(chain)), chain, wschema,
                              out, meta).out
       IN /\ werr'.returned = werr'.sink
          /\ werr'.sink \in SinkErrors
          /\ Len(out) <= Len(out') /\ Len(out') < Len(full)
          /\ out' = SubSeq(full, 1, Len(out'))
          /\ Len(meta') = Len(meta)
          /\ chain' = chain
          /\ flushLog' = flushLog /\ added' = added /\ wstate' = wstate]_vars

\* C17 witness: the sink failed at the body of the second page of a flush
\* of two records; the writer still holds both.
FlushFailureWitness ==
  /\ werr.returned = "no space left on device"
  /\ flushLog = << >>
  /\ Len(out) = 4
  /\ out[4].kind = "header"
  /\ Len(chain) = 2
  /\ chain[1].len = 1 /\ chain[2].len = 1

\* The records of the k-th page of a flush of the records rs.
PageRecords(rs, k) == SubSeq(rs, (k - 1) * max + 1, Min(k * max, Len(rs)))

\* The values of field i of the records that have one, in order.
PresentVals(recs, i) ==
  LET present == SelectSeq(recs, LAMBDA r : r[i] # << >>)
  IN [k \in 1 .. Len(present) |-> present[k][i][1]]

\* C18: every page of an optional column in the output has as its
\* uncompressed payload the levels of all the records of the page (0 for
\* an absent field, 1 for a present one) followed by the encoded values of
\* the present ones only; its header carries the number of records as
\* num_values and the length of that payload as the uncompressed size.
\* (Stated of the states in which no reader has been built yet.)
OptionalPageLayout ==
  \A g \in 1 .. Len(flushLog), i \in 1 .. Len(wschema) :
    (rstatus = "none" /\ IsOpt(wschema[i])) =>
      \A k \in 1 .. PagesPerColumn(Len(FlushedBy(g))) :
        LET recs == PageRecords(FlushedBy(g), k)
            at == 1 + Len(ItemsBefore(g))
                    + 2 * PagesPerColumn(Len(FlushedBy(g))) * (i - 1) + 2 * (k - 1) + 1
            levels == [j \in 1 .. Len(recs) |-> IF recs[j][i] = << >> THEN 0 ELSE 1]
            values == EncodeVals(wschema[i], PresentVals(recs, i))
            payload == SnappyDecode(out[at + 1].bytes)
        IN /\ out[at].kind = "header" /\ out[at].col = wschema[i]
           /\ out[at + 1].kind = "body"
           /\ payload.err = ""
           /\ payload.data = WriteLevels(levels) \o values
           /\ out[at].numValues = Len(recs)
           /\ out[at].uncompressed = Len(WriteLevels(levels)) + Len(values)
           /\ out[at].compressed = Len(out[at + 1].bytes)

\* C18 witness: a page of an optional column with an absent and a present
\* record: two records, one value.
OptionalPageLayoutWitness ==
  \E at \in 1 .. Len(out) - 1 :
    /\ out[at].kind = "header"
    /\ IsOpt(out[at].col)
    /\ out[at].numValues = 2
    /\ ReadLevels(SnappyDecode(out[at + 1].bytes).data).defs \in {<<0, 1>>, <<1, 0>>}

\* The values the pages of f from index a up to index b carry by their
\* headers.
RECURSIVE ValuesBetween(_, _, _)
ValuesBetween(f, a, b) ==
  IF a >= b \/ a > Len(f) THEN 0
  ELSE (IF f[a].kind = "header" THEN f[a].numValues ELSE 0) + ValuesBetween(f, a + 1, b)

\* C19: when a reader with the writer's fields reads a file as written, at
\* every call of a column's Read the input's cursor is at the offset of the
\* position passed, and the pages the call consumes carry exactly the
\* position's number of values.
PageLocation ==
  (rstatus # "none" /\ file = out /\ rschema = wschema) =>
    LET reads == ReaderOf(file, rschema).reads
    IN \A k \in 1 .. Len(reads) :
         /\ reads[k].from = reads[k].pos.offset
         /\ ValuesBetween(file, reads[k].from, reads[k].to) = reads[k].pos.n

\* The page location of C19 for the files of writers whose every flush had
\* records to write.
PageLocationWithoutEmptyFlush ==
  (\A g \in 1 .. Len(flushLog) : Len(FlushedBy(g)) > 0) => PageLocation

\* The booleans added to the column used alone that are present.
BoolsAdded ==
  IF IsOpt(fcol)
    THEN LET present == SelectSeq(fadded, LAMBDA v : v # << >>)
         IN [k \in 1 .. Len(present) |-> present[k][1]]
    ELSE fadded

\* The value bytes of the page the column used alone wrote: the payload,
\* after the levels for an optional column.
ValueBytes ==
  LET data == SnappyDecode(fpage.body).data
  IN IF IsOpt(fcol) THEN SubSeq(data, ReadLevels(data).l + 1, Len(data)) ELSE data

\* Bit i (0 the least significant) of the byte b.
BitOf(b, i) == (b \div (2 ^ i)) % 2

\* C20: a page of N booleans has (N + 7) / 8 value bytes; value i is bit
\* i % 8 of byte i / 8, the bits after the last value are 0; and 17 values
\* alternating from true are the bytes 0x55, 0x55, 0x01.
BoolBitPacking ==
  fpage # NoPage =>
    LET n == Len(BoolsAdded)
        bytes == ValueBytes
    IN /\ Len(bytes) = (n + 7) \div 8
       /\ \A i \in 0 .. n - 1 :
            BitOf(bytes[(i \div 8) + 1], i % 8) = (IF BoolsAdded[i + 1] THEN 1 ELSE 0)
       /\ \A i \in n .. 8 * Len(bytes) - 1 : BitOf(bytes[(i \div 8) + 1], i % 8) = 0
       /\ \A k \in 1 .. Len(bytes) : bytes[k] \in 0 .. 255
       /\ BoolsAdded = Alternating(17) => bytes = <<85, 85, 1>>

\* C20 witness: the page of 17 values alternating from true has been
\* written.
BoolBitPackingWitness ==
  /\ fpage # NoPage
  /\ BoolsAdded = Alternating(17)
  /\ ValueBytes = <<85, 85, 1>>
  /\ fpage.numValues = 17

\* The records flushed: those added before the last flush.
Flushed == SubSeq(added, 1, IF flushLog = << >> THEN 0 ELSE flushLog[Len(flushLog)])

\* Every flush wrote one page for each column, with records in it.
OnePagePerFlush ==
  \A g \in 1 .. Len(flushLog) : Len(FlushedBy(g)) \in 1 .. max

\* C21: a reader with the writer's fields, of a file of several flushes
\* (each of one page with records), has loaded for every column the values
\* of all the row groups, those of a later row group after those of the
\* earlier ones, so that the records scanned back are the records flushed,
\* in the order written.
ReadsAccumulate ==
  (/\ wstate = "closed" /\ file = out /\ rschema = wschema
   /\ rstatus # "none"
   /\ OnePagePerFlush)
    => /\ rstatus = "ok"
       /\ scanned = << >> =>
            \A i \in 1 .. Len(wschema) :
              rfields[wschema[i]] = ColumnOf(Flushed, i, wschema[i], EmptyField)
       /\ \A k \in 1 .. Min(Len(scanned), Len(Flushed)) : scanned[k] = Flushed[k]

\* The accumulation of C21 for the record types without a required bool
\* column.
ReadsAccumulateWithoutRequiredBool ==
  (\A i \in 1 .. Len(wschema) : wschema[i] # "b") => ReadsAccumulate

\* C22: Close appends the footer and the magic to the output and nothing
\* else, no page; it leaves the chain (buffers, children, record counts)
\* and the metadata as they were, and the footer counts the records
\* flushed, not those added since the last flush.
CloseDoesNotFlush ==
  [][(wstate = "open" /\ wstate' = "closed") =>
       /\ Len(out') = Len(out) + 2
       /\ SubSeq(out', 1, Len(out)) = out
       /\ out'[Len(out) + 1] = FooterOf(meta, wschema)
       /\ out'[Len(out) + 2] = Magic
       /\ out'[Len(out) + 1].rows = Len(Flushed)
       /\ chain' = chain
       /\ meta' = meta
       /\ added' = added /\ flushLog' = flushLog]_vars

\* C22 witness: a writer was closed with a record added since its flush;
\* the file has the flushed record only.
CloseDoesNotFlushWitness ==
  /\ wstate = "closed"
  /\ flushLog = <<1>>
  /\ Len(added) = 2
  /\ chain[1].len = 1
  /\ Len(out) = 5
  /\ rstatus = "ok"
  /\ rrows = 1

\* C23: an Add leaves the output and the metadata as they were, also when
\* it allocates a child; the output changes only in a flush or in Close,
\* and the magic written at construction is the only one before Close.
AddWritesNothing ==
  [][/\ added' # added => (out' = out /\ meta' = meta)
     /\ Len(chain') > Len(chain) => (out' = out /\ meta' = meta)
     /\ out' # out => (flushLog' # flushLog \/ (wstate = "open" /\ wstate' = "closed"))
     /\ meta' # meta => flushLog' # flushLog
     /\ wstate' = "open" =>
          (out'[1] = Magic /\ \A k \in 2 .. Len(out') : out'[k].kind # "magic")]_vars

\* C23 witness: two Adds allocated a child each, and the output is still
\* the magic alone.
AddWritesNothingWitness ==
  /\ max = 1
  /\ Len(added) = 3
  /\ Len(chain) = 3
  /\ out = <<Magic>>
  /\ meta = MetaNew(wschema)

\* C24: every Add returns, having stored its record: no Add ends in a
\* forwarding without end, whatever page size MaxPageSize was given, and
\* the chain holds every record added since the last flush.
AddTerminates ==
  /\ wstate # "stack overflow"
  /\ \A i \in 1 .. Len(wschema) : ChainColumn(i) = ColumnOf(Pending, i, wschema[i], EmptyField)

\* The termination of C24 for the page sizes other than 0.
AddTerminatesFromNonZero == max # 0 => AddTerminates

\* The columns of the reader whose buffer holds no record.
Exhausted == {i \in 1 .. Len(rschema) : LogicalRecords(rfields[rschema[i]], rschema[i]) = 0}

\* C25: Scan on a column whose buffer is empty does not call the read
\* adapter and leaves the record's field and the buffer as they were,
\* whatever the record holds; so a Scan made after every record was drained
\* leaves its record unmodified.  And every Scan drains one record of each
\* column that has one, whether or not Next was called before it: nothing
\* in the step depends on the calls of Next.
ScanOfExhausted ==
  /\ [](rstatus = "ok" =>
          \A x \in Records(rschema) : \A i \in Exhausted :
            LET s == ScanOf(rfields, rschema, x)
            IN /\ s.x[i] = x[i]
               /\ ~s.read[i]
               /\ s.fields[rschema[i]] = rfields[rschema[i]]
               /\ ~s.panic)
  /\ [][Len(scanned') > Len(scanned) =>
          \A i \in 1 .. Len(rschema) :
            LET c == rschema[i]
            IN /\ LogicalRecords(rfields'[c], c) = Max(0, LogicalRecords(rfields[c], c) - 1)
               /\ i \in Exhausted =>
                    (rfields'[c] = rfields[c]
                     /\ scanned'[Len(scanned')][i] = ZeroVal(c))]_vars

\* C25 witness: the file holds one record; a first Scan drained it and a
\* second Scan, made on the empty buffers, left its record as it was, with
\* Next called once only.
ScanOfExhaustedWitness ==
  /\ rstatus = "ok"
  /\ rrows = 1
  /\ rschema = wschema
  /\ Len(added) >= 1
  /\ nextCalls = 1
  /\ Len(scanned) = 2
  /\ scanned[1] = added[1]
  /\ scanned[1] # ZeroRecord(rschema)
  /\ scanned[2] = ZeroRecord(rschema)
  /\ Exhausted = 1 .. Len(rschema)

\* C25 witness of a Scan with no Next before it: the record was drained
\* although Next was never called.
ScanWithoutNext ==
  /\ rstatus = "ok"
  /\ nextCalls = 0
  /\ rschema = wschema
  /\ Len(added) >= 1
  /\ Len(scanned) = 1
  /\ scanned[1] = added[1]
  /\ scanned[1] # ZeroRecord(rschema)

====
